---- MODULE Spec2Model ----
(***************************************************************************)
(* Model of the coinbase-pro client library.                               *)
(*                                                                         *)
(*   Spec      the streaming session (coinbase/websocket.py): the caller   *)
(*             thread calling start()/end(), one flow thread and one       *)
(*             keep-alive thread per start(), the bounded message deque.   *)
(*   SpecRest  the REST wrappers (coinbase/api.py): one action per         *)
(*             validated operation, each the whole call, its private       *)
(*             requests signed as in coinbase/auth.py.                     *)
(***************************************************************************)
EXTENDS Integers, Sequences, FiniteSets, TLC

\* ------------------------------------------------------------------ bounds

\* start() calls made on the one session object (one flow thread each)
MaxStarts == 2
\* frames the exchange delivers over the session's sockets
MaxFrames == 3
\* the max_memory given to the constructor
MaxMemory == 2
\* clock ticks (tenths of a second) that pass while the REST client is used
MaxTicks == 2

Runs == 1..MaxStarts

\* None, for self.ws / self.thread / self.keepalive
NoRef == 0

\* what data holds after json.loads raised: the raw text, not a parsed frame
Garbage == -1

\* what data holds from the top of a loop pass until recv() returns: []
EmptyList == -2

\* time.time() when the client is constructed, in tenths of a second (0.9 s)
ClockStart == 9

VARIABLES
    max_memory,   \* self.max_memory
    messages,     \* self.messages, a deque(maxlen=max_memory) of parsed frames
    stop,         \* self.stop
    ws,           \* self.ws: NoRef or the socket made by run r's connect()
    thread,       \* self.thread: NoRef or the run whose flow Thread it is
    keepalive,    \* self.keepalive: NoRef or the run whose keep-alive Thread it is
    sock,         \* per socket: "none" (not created), "open", "closed"
    fpc,          \* per run: where its flow thread is
    kpc,          \* per run: where its keep-alive Thread object is
    rsock,        \* per run: the socket its flow thread's recv() was called on
    data,         \* per run: listen()'s local data: a frame number, EmptyList,
                  \* Garbage, or 0 when it holds nothing that is still used
    cpc,          \* the caller thread: "idle", or inside end()
    endResult,    \* how the last end() call finished
    nframes,      \* well-formed frames received so far, numbered in arrival order
    restCall,     \* REST: the last call made, with its arguments
    restSent,     \* REST: the HTTP requests that call sent, in order
    restOutcome,  \* REST: "none", "ok", or the exception the call raised
    restRet,      \* REST: what the call returned
    clock,        \* what time.time() returns now, in tenths of a second
    cred          \* the client's credentials: sk, api_key, passphrase

sessionVars == <<max_memory, messages, stop, ws, thread, keepalive, sock, fpc,
                 kpc, rsock, data, cpc, endResult, nframes>>
restEnv == <<clock, cred>>
restVars == <<restCall, restSent, restOutcome, restRet, restEnv>>
vars == <<sessionVars, restVars>>

\* ------------------------------------------------------------ the deque

\* deque(maxlen=n).append(x) with the oldest entry kept and the newest dropped
DequeAppendDropNewest(q, x, n) ==
    IF Len(q) >= n THEN q ELSE Append(q, x)

\* deque(maxlen=n).append(x): when the deque is full the item at the other
\* end (the oldest) is discarded
DequeAppend(q, x, n) ==
    IF n = 0 THEN q
    ELSE IF Len(q) >= n THEN Append(Tail(q), x)
    ELSE Append(q, x)

\* the last k entries of sequence s (all of it when k >= Len(s))
LastN(s, k) ==
    IF k >= Len(s) THEN s ELSE SubSeq(s, Len(s) - k + 1, Len(s))

\* ------------------------------------------------------- session: Init

SessionInit ==
    /\ max_memory = MaxMemory
    /\ messages = <<>>
    /\ stop = FALSE
    /\ ws = NoRef
    /\ thread = NoRef
    /\ keepalive = NoRef
    /\ sock = [r \in Runs |-> "none"]
    /\ fpc = [r \in Runs |-> "new"]
    /\ kpc = [r \in Runs |-> "none"]
    /\ rsock = [r \in Runs |-> NoRef]
    /\ data = [r \in Runs |-> 0]
    /\ cpc = "idle"
    /\ endResult = "none"
    /\ nframes = 0

\* the credentials a client may be constructed with
Credentials ==
    {[sk |-> "c2VjcmV0", api_key |-> "key-a", passphrase |-> "pass-a"],
     [sk |-> "b3RoZXI=", api_key |-> "key-b", passphrase |-> "pass-b"]}

RestInit ==
    /\ restCall = [op |-> "none"]
    /\ restSent = <<>>
    /\ restOutcome = "none"
    /\ restRet = [t |-> "none"]
    /\ clock = ClockStart
    /\ cred \in Credentials

Init == SessionInit /\ RestInit

\* ------------------------------------------------- session: the caller

\* start(): stop reset, two Thread objects made, the flow thread started
Start ==
    /\ cpc = "idle"
    /\ thread < MaxStarts
    /\ LET r == thread + 1 IN
        /\ stop' = FALSE
        /\ thread' = r
        /\ keepalive' = r
        /\ fpc' = [fpc EXCEPT ![r] = "connect"]
        /\ kpc' = [kpc EXCEPT ![r] = "new"]
    /\ UNCHANGED <<max_memory, messages, ws, sock, rsock, data, cpc, endResult,
                   nframes, restVars>>

\* end(), first statement: self.stop = True
EndSetStop ==
    /\ cpc = "idle"
    /\ stop' = TRUE
    /\ cpc' = "end_join"
    /\ UNCHANGED <<max_memory, messages, ws, thread, keepalive, sock, fpc, kpc,
                   rsock, data, endResult, nframes, restVars>>

\* end(), self.keepalive.join() is called: None has no join (AttributeError),
\* a Thread that was never started cannot be joined (RuntimeError)
EndJoinCall ==
    /\ cpc = "end_join"
    /\ IF keepalive = NoRef
         THEN cpc' = "idle" /\ endResult' = "AttributeError"
       ELSE IF kpc[keepalive] = "new"
         THEN cpc' = "idle" /\ endResult' = "RuntimeError"
       ELSE cpc' = "joining" /\ UNCHANGED endResult
    /\ UNCHANGED <<max_memory, messages, stop, ws, thread, keepalive, sock, fpc,
                   kpc, rsock, data, nframes, restVars>>

\* end(), join() returns once the keep-alive thread has finished
EndJoinReturn ==
    /\ cpc = "joining"
    /\ kpc[keepalive] \in {"done", "dead"}
    /\ cpc' = "idle"
    /\ endResult' = "returned"
    /\ UNCHANGED <<max_memory, messages, stop, ws, thread, keepalive, sock, fpc,
                   kpc, rsock, data, nframes, restVars>>

\* ---------------------------------------------- session: the flow thread

\* connect(), create_connection(self.url): a new open socket is bound to
\* self.ws, or the connection attempt raises and the flow thread dies
ConnectCreate(r) ==
    /\ fpc[r] = "connect"
    /\ \/ /\ ws' = r
          /\ sock' = [sock EXCEPT ![r] = "open"]
          /\ fpc' = [fpc EXCEPT ![r] = "send"]
       \/ /\ fpc' = [fpc EXCEPT ![r] = "dead"]
          /\ UNCHANGED <<ws, sock>>
    /\ UNCHANGED <<max_memory, messages, stop, thread, keepalive, kpc, rsock,
                   data, cpc, endResult, nframes, restVars>>

\* connect(), self.ws.send(subscribe frame): sent, or the send raises (a
\* socket that is not open always raises; a failed send drops the socket)
ConnectSend(r) ==
    /\ fpc[r] = "send"
    /\ \/ /\ sock[ws] = "open"
          /\ fpc' = [fpc EXCEPT ![r] = "assert"]
          /\ UNCHANGED sock
       \/ /\ sock' = [sock EXCEPT ![ws] = "closed"]
          /\ fpc' = [fpc EXCEPT ![r] = "dead"]
    /\ UNCHANGED <<max_memory, messages, stop, ws, thread, keepalive, kpc,
                   rsock, data, cpc, endResult, nframes, restVars>>

\* connect(), assert self.ws.connected: the AssertionError ends the flow thread
ConnectAssert(r) ==
    /\ fpc[r] = "assert"
    /\ fpc' = [fpc EXCEPT ![r] =
                 IF sock[ws] = "open" THEN "kastart" ELSE "assert_failed"]
    /\ UNCHANGED <<max_memory, messages, stop, ws, thread, keepalive, sock, kpc,
                   rsock, data, cpc, endResult, nframes, restVars>>

\* listen(), self.keepalive.start(): starts whichever Thread self.keepalive
\* now names; a Thread already started raises RuntimeError in the flow thread
ListenStartKeepalive(r) ==
    /\ fpc[r] = "kastart"
    /\ IF kpc[keepalive] = "new"
         THEN /\ kpc' = [kpc EXCEPT ![keepalive] = "check"]
              /\ fpc' = [fpc EXCEPT ![r] = "check"]
         ELSE /\ fpc' = [fpc EXCEPT ![r] = "dead"]
              /\ UNCHANGED kpc
    /\ UNCHANGED <<max_memory, messages, stop, ws, thread, keepalive, sock,
                   rsock, data, cpc, endResult, nframes, restVars>>

\* listen(), while not self.stop; the loop body opens with data = []
ListenCheck(r) ==
    /\ fpc[r] = "check"
    /\ fpc' = [fpc EXCEPT ![r] = IF stop THEN "close" ELSE "recv_call"]
    /\ data' = [data EXCEPT ![r] = IF stop THEN 0 ELSE EmptyList]
    /\ UNCHANGED <<max_memory, messages, stop, ws, thread, keepalive, sock, kpc,
                   rsock, cpc, endResult, nframes, restVars>>

\* listen(), self.ws.recv() is entered on the socket self.ws names now
ListenRecvCall(r) ==
    /\ fpc[r] = "recv_call"
    /\ rsock' = [rsock EXCEPT ![r] = ws]
    /\ fpc' = [fpc EXCEPT ![r] = "recv"]
    /\ UNCHANGED <<max_memory, messages, stop, ws, thread, keepalive, sock, kpc,
                   data, cpc, endResult, nframes, restVars>>

\* listen(), recv() returns the next frame and json.loads parses it
ListenRecvOk(r) ==
    /\ fpc[r] = "recv"
    /\ sock[rsock[r]] = "open"
    /\ nframes < MaxFrames
    /\ nframes' = nframes + 1
    /\ data' = [data EXCEPT ![r] = nframes + 1]
    /\ rsock' = [rsock EXCEPT ![r] = NoRef]
    /\ fpc' = [fpc EXCEPT ![r] = "append"]
    /\ UNCHANGED <<max_memory, messages, stop, ws, thread, keepalive, sock, kpc,
                   cpc, endResult, restVars>>

\* listen(), recv() returns a frame that json.loads rejects: the except
\* clause sets self.stop, nothing is appended
ListenParseFail(r) ==
    /\ fpc[r] = "recv"
    /\ sock[rsock[r]] = "open"
    /\ data' = [data EXCEPT ![r] = Garbage]
    /\ rsock' = [rsock EXCEPT ![r] = NoRef]
    /\ stop' = TRUE
    /\ fpc' = [fpc EXCEPT ![r] = "check"]
    /\ UNCHANGED <<max_memory, messages, ws, thread, keepalive, sock, kpc,
                   cpc, endResult, nframes, restVars>>

\* listen(), recv() raises (the connection is or gets closed): the except
\* clause sets self.stop, nothing is appended
ListenRecvFail(r) ==
    /\ fpc[r] = "recv"
    /\ sock' = [sock EXCEPT ![rsock[r]] = "closed"]
    /\ rsock' = [rsock EXCEPT ![r] = NoRef]
    /\ stop' = TRUE
    /\ fpc' = [fpc EXCEPT ![r] = "check"]
    /\ UNCHANGED <<max_memory, messages, ws, thread, keepalive, kpc,
                   data, cpc, endResult, nframes, restVars>>

\* listen(), the else clause: self.messages.append(data)
ListenAppend(r) ==
    /\ fpc[r] = "append"
    /\ messages' = DequeAppend(messages, data[r], max_memory)
    /\ data' = [data EXCEPT ![r] = 0]
    /\ fpc' = [fpc EXCEPT ![r] = "check"]
    /\ UNCHANGED <<max_memory, stop, ws, thread, keepalive, sock, kpc, rsock,
                   cpc, endResult, nframes, restVars>>

\* kill(), self.ws.close() on the socket self.ws names now
KillClose(r) ==
    /\ fpc[r] = "close"
    /\ sock' = [sock EXCEPT ![ws] = "closed"]
    /\ fpc' = [fpc EXCEPT ![r] = "kassert"]
    /\ UNCHANGED <<max_memory, messages, stop, ws, thread, keepalive, kpc,
                   rsock, data, cpc, endResult, nframes, restVars>>

\* kill(), assert not self.ws.connected; then flow() returns
KillAssert(r) ==
    /\ fpc[r] = "kassert"
    /\ fpc' = [fpc EXCEPT ![r] = IF sock[ws] = "open" THEN "dead" ELSE "done"]
    /\ UNCHANGED <<max_memory, messages, stop, ws, thread, keepalive, sock, kpc,
                   rsock, data, cpc, endResult, nframes, restVars>>

\* ---------------------------------------- session: the keep-alive thread

\* keep_alive_fn, while self.ws.connected and not self.stop
KeepAliveCheck(k) ==
    /\ kpc[k] = "check"
    /\ kpc' = [kpc EXCEPT ![k] =
                 IF sock[ws] = "open" /\ ~stop THEN "ping" ELSE "done"]
    /\ UNCHANGED <<max_memory, messages, stop, ws, thread, keepalive, sock, fpc,
                   rsock, data, cpc, endResult, nframes, restVars>>

\* keep_alive_fn, self.ws.ping("keepalive") then time.sleep(interval); a
\* ping on a socket that is not open raises and the thread dies
KeepAlivePing(k) ==
    /\ kpc[k] = "ping"
    /\ \/ /\ sock[ws] = "open"
          /\ kpc' = [kpc EXCEPT ![k] = "check"]
          /\ UNCHANGED sock
       \/ /\ sock' = [sock EXCEPT ![ws] = "closed"]
          /\ kpc' = [kpc EXCEPT ![k] = "dead"]
    /\ UNCHANGED <<max_memory, messages, stop, ws, thread, keepalive, fpc,
                   rsock, data, cpc, endResult, nframes, restVars>>

\* --------------------------------------------------------- session: Spec

Flow(r) ==
    \/ ConnectCreate(r)
    \/ ConnectSend(r)
    \/ ConnectAssert(r)
    \/ ListenStartKeepalive(r)
    \/ ListenCheck(r)
    \/ ListenRecvCall(r)
    \/ ListenRecvOk(r)
    \/ ListenParseFail(r)
    \/ ListenRecvFail(r)
    \/ ListenAppend(r)
    \/ KillClose(r)
    \/ KillAssert(r)

KeepAlive(k) ==
    \/ KeepAliveCheck(k)
    \/ KeepAlivePing(k)

Next ==
    \/ Start
    \/ EndSetStop
    \/ EndJoinCall
    \/ EndJoinReturn
    \/ \E r \in Runs : Flow(r)
    \/ \E k \in Runs : KeepAlive(k)

Spec == Init /\ [][Next]_vars

\* ------------------------------------------------------ session: claims

\* the frames received and parsed successfully so far, in arrival order
Received == [i \in 1..nframes |-> i]

\* C1: the message buffer never holds more than max_memory entries; the
\* receive loop's append is always possible (it never blocks or fails), and
\* it puts the new frame at the end, evicting exactly the oldest entry when
\* the buffer already holds max_memory entries and nothing otherwise.
C1_BufferBounded ==
    /\ [](/\ Len(messages) <= max_memory
          /\ \A r \in Runs : fpc[r] = "append" => ENABLED ListenAppend(r))
    /\ [][\A r \in Runs :
            (fpc[r] = "append" /\ fpc'[r] # "append") =>
               messages' = IF Len(messages) = max_memory
                             THEN Append(Tail(messages), data[r])
                             ELSE Append(messages, data[r])]_vars

\* C1 witness: a full buffer has taken one more frame: frame 1 is gone and
\* frames 2..max_memory+1 are left, in order
C1_Evicted ==
    /\ nframes = max_memory + 1
    /\ messages = [i \in 1..max_memory |-> i + 1]

\* C2 (as claimed): whenever no receive loop holds a parsed frame it has yet
\* to append, the buffer is, in order, the last min(n, max_memory) of the n
\* frames received and parsed so far.
C2_BufferIsTailOfReceived ==
    (\A r \in Runs : fpc[r] # "append") =>
        messages = LastN(Received, max_memory)

\* C3 (as claimed): end() on a session that start() was never called on
\* does not raise.
C3_EndBeforeStartDoesNotRaise ==
    thread = NoRef => endResult \in {"none", "returned"}

\* C4 (as claimed, its first part): an end() called after start() returns
\* without raising.
C4_EndAfterStartReturns ==
    thread # NoRef => endResult # "RuntimeError"

\* C13 (as claimed): the keep-alive thread of a run is started only by that
\* run's own flow thread at the top of listen(), that is after that run's
\* handshake (socket opened, subscribe sent, socket confirmed open) has
\* completed, and with the socket handle set; the keep-alive thread of a run
\* whose handshake failed is never started.
C13_KeepAliveStartsAfterHandshake ==
    [][\A k \in Runs :
          (kpc[k] = "new" /\ kpc'[k] # "new") =>
              (fpc[k] = "kastart" /\ ws # NoRef)]_vars

\* the receive loop of run r is at its loop test right after its try clause
\* raised: data is still [] (recv raised) or the raw text (json.loads raised)
AfterFailure(r) == fpc[r] = "check" /\ data[r] \in {EmptyList, Garbage}

\* C14 (as claimed, its safety part): once receiving or parsing has failed
\* in a run's receive loop the stop signal is set and the loop's next step
\* is to leave the loop for kill(), not to receive again.
C14_FailureEndsTheLoop ==
    [][\A r \in Runs :
          AfterFailure(r) => (stop /\ fpc'[r] \in {"check", "close"})]_vars

\* C15 (as claimed, its last part): when the handshake of the session's
\* current run has failed at the check that the socket is open, an end()
\* called afterwards does not raise.
C15_EndAfterFailedHandshake ==
    [][(thread # NoRef /\ fpc[thread] = "assert_failed" /\ cpc = "end_join")
          => cpc' # "idle"]_vars

\* C16 (as claimed): the keep-alive thread sends a ping frame only while the
\* stop signal is not raised and the socket is open.
C16_NoPingAfterStop ==
    [][\A k \in Runs :
          (kpc[k] = "ping" /\ kpc'[k] = "check") =>
              (~stop /\ sock[ws] = "open")]_vars

\* the last end() returned normally and start() has been called again since:
\* that end() raised the stop signal for an earlier run (an end() called
\* after the last start() cannot have returned while the keep-alive thread
\* of the current run is not started)
EndedThenRestarted ==
    /\ endResult = "returned" /\ cpc = "idle"
    /\ thread # NoRef /\ kpc[thread] = "new"

\* C17 (as claimed): once end() has raised the stop signal for a run, that
\* run's receive loop does not go on to receive and append again: at its
\* next loop test it leaves for kill(), also when start() has been called
\* again in between.
C17_EndedRunLeavesItsLoop ==
    [][\A r \in Runs :
          (EndedThenRestarted /\ r < thread /\ fpc[r] = "check")
              => fpc'[r] # "recv_call"]_vars

\* ================================================================= REST

\* ------------------------------------------------------- Python values

PyNone == [t |-> "none"]
PyStr(x) == [t |-> "str", v |-> x]
PyInt(x) == [t |-> "int", v |-> x]
PyBool(x) == [t |-> "bool", v |-> x]
PyList(x) == [t |-> "list", v |-> x]
PyTuple(x) == [t |-> "tuple", v |-> x]

Digit(d) ==
    CASE d = 0 -> "0" [] d = 1 -> "1" [] d = 2 -> "2" [] d = 3 -> "3"
      [] d = 4 -> "4" [] d = 5 -> "5" [] d = 6 -> "6" [] d = 7 -> "7"
      [] d = 8 -> "8" [] d = 9 -> "9"

RECURSIVE NatStr(_)
NatStr(n) == IF n < 10 THEN Digit(n) ELSE NatStr(n \div 10) \o Digit(n % 10)

\* str(v) of a Python value
Str(x) ==
    CASE x.t = "str" -> x.v
      [] x.t = "int" -> IF x.v < 0 THEN "-" \o NatStr(0 - x.v) ELSE NatStr(x.v)
      [] x.t = "bool" -> IF x.v THEN "True" ELSE "False"
      [] x.t = "none" -> "None"

\* the empty dict; also stands for a request's absent body or parameters
EmptyDict == [k \in {} |-> PyNone]

\* d.update(e)
DictUpdate(d, e) ==
    [k \in DOMAIN d \cup DOMAIN e |-> IF k \in DOMAIN e THEN e[k] ELSE d[k]]

\* del d[key]
DictDel(d, key) == [k \in DOMAIN d \ {key} |-> d[k]]

\* d.get(key)
DictGet(d, key) == IF key \in DOMAIN d THEN d[key] ELSE PyNone

\* method.upper()
Upper(m) ==
    CASE m = "get" -> "GET" [] m = "post" -> "POST" [] m = "delete" -> "DELETE"
      [] OTHER -> m

\* what a call hands back to the action that made it
Raised(exc, sent) == [outcome |-> exc, sent |-> sent, ret |-> PyNone]
Returned(ret, sent) == [outcome |-> "ok", sent |-> sent, ret |-> ret]

\* ------------------------------------------------------ text on the wire

\* sep.join(items)
RECURSIVE Join(_, _)
Join(items, sep) ==
    IF items = <<>> THEN ""
    ELSE IF Len(items) = 1 THEN items[1]
    ELSE items[1] \o sep \o Join(Tail(items), sep)

\* the keys of dict d in the order given by the sequence order
RECURSIVE KeysInOrder(_, _)
KeysInOrder(d, order) ==
    IF order = <<>> THEN <<>>
    ELSE (IF Head(order) \in DOMAIN d THEN <<Head(order)>> ELSE <<>>)
            \o KeysInOrder(d, Tail(order))

\* json.dumps(d) of a dict of strings whose keys were inserted in the order keys
JsonDumps(d, keys) ==
    "{" \o Join([i \in 1..Len(keys) |->
                  "\"" \o keys[i] \o "\": \"" \o d[keys[i]] \o "\""], ", ") \o "}"

\* the key=value pairs one request parameter is encoded as: one per element
\* for a list, none for None
QueryPairs(key, val) ==
    CASE val.t = "list" -> [i \in 1..Len(val.v) |-> key \o "=" \o val.v[i]]
      [] val.t = "none" -> <<>>
      [] OTHER -> <<key \o "=" \o Str(val)>>

RECURSIVE QueryItems(_, _)
QueryItems(params, keys) ==
    IF keys = <<>> THEN <<>>
    ELSE QueryPairs(Head(keys), params[Head(keys)]) \o QueryItems(params, Tail(keys))

\* the order in which get_all_orders inserts its request parameters
ParamOrder == <<"limit", "status", "product_id">>

\* request.path_url: the path, then "?" and the encoded parameters if any
PathUrl(endpoint, params) ==
    LET items == QueryItems(params, KeysInOrder(params, ParamOrder))
    IN  IF items = <<>> THEN endpoint ELSE endpoint \o "?" \o Join(items, "&")

\* ------------------------------------------------------- authentication

\* get_timestamp(): time.time(), a float; here in tenths of a second
GetTimestamp == clock

\* str(t) of the float t/10
FloatStr(t) == NatStr(t \div 10) \o "." \o Digit(t % 10)

\* sign(message, secret_key): the base64 HMAC-SHA256 of message under the
\* decoded key, kept symbolic: equal only for equal message and key
Sign(message, secret_key) == [hmac_sha256 |-> message, key |-> secret_key]

\* the canonical message without the body
CanonicalMessageNoBody(timestamp, method, path_url, body) ==
    timestamp \o method \o path_url

\* "".join([timestamp, request.method, request.path_url, body])
CanonicalMessage(timestamp, method, path_url, body) ==
    timestamp \o method \o path_url \o body

\* CoinbaseAuth.__call__: the headers added to the request; text is
\* request.body, None or the text posted
CoinbaseAuthCall(method, path_url, text) ==
    LET timestamp == FloatStr(GetTimestamp)
        body == IF text # PyNone /\ text.v # "" THEN text.v ELSE ""
        message == CanonicalMessage(timestamp, method, path_url, body)
        signature == Sign(message, cred.sk)
    IN  [k \in {"Content-Type", "CB-ACCESS-SIGN", "CB-ACCESS-TIMESTAMP",
                "CB-ACCESS-KEY", "CB-ACCESS-PASSPHRASE"} |->
            CASE k = "Content-Type" -> "Application/JSON"
              [] k = "CB-ACCESS-SIGN" -> signature
              [] k = "CB-ACCESS-TIMESTAMP" -> timestamp
              [] k = "CB-ACCESS-KEY" -> cred.api_key
              [] k = "CB-ACCESS-PASSPHRASE" -> cred.passphrase]

\* ----------------------------------------------------- the HTTP requests

\* Private.request: the one signed HTTP request it sends. text is the data
\* posted (None for GET), body the dict that text serialises
PrivateRequest(method, endpoint, body, text, params) ==
    [method |-> Upper(method), endpoint |-> endpoint, body |-> body,
     text |-> text, params |-> params, auth |-> TRUE,
     path_url |-> PathUrl(endpoint, params),
     headers |-> CoinbaseAuthCall(Upper(method), PathUrl(endpoint, params), text)]

\* Public.request: the one unsigned GET it sends
PublicRequest(endpoint, params) ==
    [method |-> "GET", endpoint |-> endpoint, body |-> EmptyDict,
     text |-> PyNone, params |-> params, auth |-> FALSE]

\* ------------------------------------------------------- create_order

\* create_order without its time_in_force checks
TimeInForceCheckSkipped(kwargs) == "ok"

\* create_order, the time_in_force block: GTT needs cancel_after, IOC and FOK
\* exclude post_only
TimeInForceCheck(kwargs) ==
    IF "time_in_force" \in DOMAIN kwargs
      THEN IF DictGet(kwargs, "time_in_force") = PyStr("GTT")
             THEN IF "cancel_after" \in DOMAIN kwargs
                    THEN "ok" ELSE "AssertionError"
           ELSE IF DictGet(kwargs, "time_in_force") \in {PyStr("IOC"), PyStr("FOK")}
             THEN IF ~("post_only" \in DOMAIN kwargs)
                    THEN "ok" ELSE "AssertionError"
           ELSE "ok"
      ELSE "ok"

\* the market rule with "or" where the code has xor
MarketCheckOr(kwargs) ==
    IF ("funds" \in DOMAIN kwargs) \/ ("size" \in DOMAIN kwargs)
      THEN "ok" ELSE "AssertionError"

\* create_order, order_type == "market": ("funds" in kwargs) ^ ("size" in kwargs)
MarketCheck(kwargs) ==
    IF ("funds" \in DOMAIN kwargs) # ("size" \in DOMAIN kwargs)
      THEN "ok" ELSE "AssertionError"

\* the limit rule asking for size only
LimitCheckSizeOnly(kwargs) ==
    IF "size" \in DOMAIN kwargs THEN "ok" ELSE "AssertionError"

\* create_order, order_type == "limit": size and price
LimitCheck(kwargs) ==
    IF "size" \in DOMAIN kwargs /\ "price" \in DOMAIN kwargs
      THEN "ok" ELSE "AssertionError"

\* create_order, order_type == "stop": stop and stop_price, then size and price
StopCheck(kwargs) ==
    IF ~("stop" \in DOMAIN kwargs /\ "stop_price" \in DOMAIN kwargs)
      THEN "AssertionError"
    ELSE IF ~("size" \in DOMAIN kwargs /\ "price" \in DOMAIN kwargs)
      THEN "AssertionError"
    ELSE "ok"

\* create_order, the if/elif chain on order_type
OrderTypeCheck(order_type, kwargs) ==
    IF order_type = "market" THEN MarketCheck(kwargs)
    ELSE IF order_type = "limit" THEN LimitCheck(kwargs)
    ELSE IF order_type = "stop" THEN StopCheck(kwargs)
    ELSE "ok"

\* create_payload that keeps the type key of a stop order
CreatePayloadKeepsType(order_type, product_id, side, kwargs) ==
    LET base == [type |-> PyStr(order_type), side |-> PyStr(side),
                 product_id |-> PyStr(product_id), stp |-> PyStr("dc"),
                 time_in_force |-> PyStr("GTC")]
        merged == DictUpdate(base, kwargs)
    IN  [k \in DOMAIN merged |-> Str(merged[k])]

\* create_payload: the dict that json.dumps serialises
CreatePayload(order_type, product_id, side, kwargs) ==
    LET base == [type |-> PyStr(order_type), side |-> PyStr(side),
                 product_id |-> PyStr(product_id), stp |-> PyStr("dc"),
                 time_in_force |-> PyStr("GTC")]
        typed == IF order_type = "stop" THEN DictDel(base, "type") ELSE base
        merged == DictUpdate(typed, kwargs)
    IN  [k \in DOMAIN merged |-> Str(merged[k])]

\* the keyword fields in the order the caller writes them
KwOrder == <<"size", "funds", "price", "stop", "stop_price", "time_in_force",
             "cancel_after", "post_only", "type">>

\* create_payload: the keys of its dict in insertion order: the defaults
\* (type deleted for a stop order), then the keyword fields that are new
CreatePayloadKeys(order_type, kwargs) ==
    LET base == IF order_type = "stop"
                  THEN <<"side", "product_id", "stp", "time_in_force">>
                  ELSE <<"type", "side", "product_id", "stp", "time_in_force">>
        inBase == {base[i] : i \in 1..Len(base)}
    IN  base \o KeysInOrder([k \in DOMAIN kwargs \ inBase |-> kwargs[k]], KwOrder)

\* create_payload, its return value: json.dumps(payload)
CreatePayloadText(order_type, product_id, side, kwargs) ==
    JsonDumps(CreatePayload(order_type, product_id, side, kwargs),
              CreatePayloadKeys(order_type, kwargs))

\* create_order: the checks, then the payload, then the POST
CreateOrderCall(product_id, side, order_type, kwargs) ==
    IF TimeInForceCheck(kwargs) # "ok"
      THEN Raised(TimeInForceCheck(kwargs), <<>>)
    ELSE IF OrderTypeCheck(order_type, kwargs) # "ok"
      THEN Raised(OrderTypeCheck(order_type, kwargs), <<>>)
    ELSE Returned(PyStr("response"),
                  <<PrivateRequest("POST", "/orders",
                        CreatePayload(order_type, product_id, side, kwargs),
                        PyStr(CreatePayloadText(order_type, product_id, side,
                                                kwargs)),
                        EmptyDict)>>)

\* the keyword fields a caller may give create_order, and values for each
KwKeys == {"size", "funds", "price", "stop", "stop_price", "time_in_force",
           "cancel_after", "post_only", "type"}
TifValues == {PyStr("GTC"), PyStr("GTT"), PyStr("IOC"), PyStr("FOK")}
StopValues == {PyStr("loss"), PyStr("entry"), PyStr("bogus")}
OrderTypes == {"market", "limit", "stop"}
Sides == {"buy", "sell"}

KwValue(k, tif, stopv, po) ==
    CASE k = "size" -> PyInt(1)
      [] k = "funds" -> PyInt(100)
      [] k = "price" -> PyInt(99)
      [] k = "stop_price" -> PyInt(100)
      [] k = "cancel_after" -> PyStr("min")
      [] k = "type" -> PyStr("limit")
      [] k = "time_in_force" -> tif
      [] k = "stop" -> stopv
      [] k = "post_only" -> PyBool(po)

CreateOrder ==
    /\ restCall.op = "none"
    /\ \E order_type \in OrderTypes, side \in Sides, keys \in SUBSET KwKeys :
       \E tif \in IF "time_in_force" \in keys THEN TifValues ELSE {PyNone},
          stopv \in IF "stop" \in keys THEN StopValues ELSE {PyNone},
          po \in IF "post_only" \in keys THEN BOOLEAN ELSE {FALSE} :
        LET kwargs == [k \in keys |-> KwValue(k, tif, stopv, po)]
            res == CreateOrderCall("BTC-USD", side, order_type, kwargs)
        IN  /\ restCall' = [op |-> "create_order", product_id |-> "BTC-USD",
                            side |-> side, order_type |-> order_type,
                            kwargs |-> kwargs]
            /\ restSent' = res.sent
            /\ restOutcome' = res.outcome
            /\ restRet' = res.ret
            /\ UNCHANGED <<sessionVars, restEnv>>

\* ------------------------------------------------------ get_all_orders

AllowedStatusOptions == {"open", "pending", "active", "done", "settled"}

\* the status check without the per-element test
StatusCheckListOnly(status) ==
    IF status.t # "list" THEN "AssertionError" ELSE "ok"

\* get_all_orders, the else branch: status must be a list, each element an
\* allowed option
StatusCheck(status) ==
    IF status.t # "list" THEN "AssertionError"
    ELSE IF \E i \in DOMAIN status.v : status.v[i] \notin AllowedStatusOptions
      THEN "AssertionError"
    ELSE "ok"

\* get_all_orders: params built and checked, then the GET
GetAllOrdersCall(product_id, limit, status) ==
    LET params0 == [limit |-> limit]
        withStatus == IF status = PyStr("all")
                        THEN DictUpdate(params0, [status |-> PyStr("all")])
                        ELSE DictUpdate(params0, [status |-> status])
        params == IF product_id # PyNone
                    THEN DictUpdate(withStatus, [product_id |-> product_id])
                    ELSE withStatus
    IN  IF status # PyStr("all") /\ StatusCheck(status) # "ok"
          THEN Raised(StatusCheck(status), <<>>)
          ELSE Returned(PyStr("response"),
                        <<PrivateRequest("GET", "/orders/", EmptyDict, PyNone,
                                         params)>>)

\* status arguments: the string "all", another string, None, a tuple, lists
StatusElems == {"open", "done", "settled", "bogus", "all"}
StatusArgs ==
    {PyStr("all"), PyStr("open"), PyNone, PyTuple(<<"open">>), PyList(<<>>),
     PyList(<<"open", "pending", "active">>)}
    \cup {PyList(<<a>>) : a \in StatusElems}
    \cup {PyList(<<a, b>>) : a \in StatusElems, b \in StatusElems}

GetAllOrders ==
    /\ restCall.op = "none"
    /\ \E product_id \in {PyNone, PyStr("BTC-USD")}, limit \in {PyInt(100), PyInt(5)},
       status \in StatusArgs :
        LET res == GetAllOrdersCall(product_id, limit, status)
        IN  /\ restCall' = [op |-> "get_all_orders", product_id |-> product_id,
                            limit |-> limit, status |-> status]
            /\ restSent' = res.sent
            /\ restOutcome' = res.outcome
            /\ restRet' = res.ret
            /\ UNCHANGED <<sessionVars, restEnv>>

\* --------------------------------------- get_account / get_all_accounts

\* float(s) > 0 and float(s) == 0 for the balance strings the exchange sends
FloatIsPositive(s) == s \in {"1.5", "0.0000000100000000"}
FloatIsZero(s) == s \in {"0", "0.0000000000000000"}

\* [d for d in data if keep(d)]
RECURSIVE FilterAccounts(_, _, _)
FilterAccounts(accts, mode, arg) ==
    IF accts = <<>> THEN <<>>
    ELSE LET d == Head(accts)
             keep == CASE mode = "currency" ->
                             \E i \in DOMAIN arg : arg[i] = d.currency
                       [] mode = "positive" -> FloatIsPositive(d.balance)
                       [] mode = "zero" -> FloatIsZero(d.balance)
         IN  (IF keep THEN <<d>> ELSE <<>>) \o FilterAccounts(Tail(accts), mode, arg)

\* get_account: the GET first, then the two keyword lookups, then at most
\* one filter, each with its type check. fetched is what the exchange
\* answered: a list of accounts for account_id "", else one account (a dict,
\* whose iteration yields its keys, so that filtering it raises TypeError)
GetAccountCall(account_id, kwargs, fetched) ==
    LET sent == <<PrivateRequest("GET", "/accounts/" \o account_id, EmptyDict,
                                 PyNone, EmptyDict)>>
        currency_filter == DictGet(kwargs, "currency_filter")
        balance_filter == DictGet(kwargs, "has_balance_filter")
    IN  IF "currency_filter" \notin DOMAIN kwargs THEN Raised("KeyError", sent)
        ELSE IF "has_balance_filter" \notin DOMAIN kwargs THEN Raised("KeyError", sent)
        ELSE IF currency_filter # PyNone
          THEN IF currency_filter.t # "list" THEN Raised("AssertionError", sent)
               ELSE IF fetched.t # "list" THEN Raised("TypeError", sent)
               ELSE Returned(PyList(FilterAccounts(fetched.v, "currency",
                                                   currency_filter.v)), sent)
        ELSE IF balance_filter # PyNone
          THEN IF balance_filter.t # "bool" THEN Raised("AssertionError", sent)
               ELSE IF fetched.t # "list" THEN Raised("TypeError", sent)
               ELSE Returned(PyList(FilterAccounts(fetched.v,
                                IF balance_filter.v THEN "positive" ELSE "zero",
                                <<>>)), sent)
        ELSE Returned(fetched, sent)

\* get_all_accounts: get_account("") with both filters passed by keyword
GetAllAccountsCall(currency_filter, has_balance_filter, fetched) ==
    GetAccountCall("", [currency_filter |-> currency_filter,
                        has_balance_filter |-> has_balance_filter], fetched)

\* what the exchange may answer, and the filter arguments tried
Btc == [currency |-> "BTC", balance |-> "1.5"]
Eth == [currency |-> "ETH", balance |-> "0.0000000000000000"]
Usd == [currency |-> "USD", balance |-> "0.0000000100000000"]
AccountLists == {<<>>, <<Btc>>, <<Btc, Eth>>, <<Eth, Usd, Btc>>}
CurrencyFilterArgs ==
    {PyNone, PyList(<<>>), PyList(<<"BTC">>), PyList(<<"ETH", "USD">>),
     PyStr("BTC"), PyTuple(<<"BTC">>)}
BalanceFilterArgs == {PyNone, PyBool(TRUE), PyBool(FALSE), PyInt(1), PyStr("True")}

GetAllAccounts ==
    /\ restCall.op = "none"
    /\ \E cf \in CurrencyFilterArgs, bf \in BalanceFilterArgs, accts \in AccountLists :
        LET res == GetAllAccountsCall(cf, bf, PyList(accts))
        IN  /\ restCall' = [op |-> "get_all_accounts", account_id |-> "",
                            kwargs |-> [currency_filter |-> cf,
                                        has_balance_filter |-> bf],
                            fetched |-> PyList(accts)]
            /\ restSent' = res.sent
            /\ restOutcome' = res.outcome
            /\ restRet' = res.ret
            /\ UNCHANGED <<sessionVars, restEnv>>

GetAccount ==
    /\ restCall.op = "none"
    /\ \E cf \in CurrencyFilterArgs, bf \in BalanceFilterArgs,
       keys \in SUBSET {"currency_filter", "has_balance_filter"},
       fetched \in {[t |-> "dict", v |-> Btc], [t |-> "dict", v |-> Eth]} :
        LET kwargs == [k \in keys |-> IF k = "currency_filter" THEN cf ELSE bf]
            res == GetAccountCall("a1", kwargs, fetched)
        IN  /\ restCall' = [op |-> "get_account", account_id |-> "a1",
                            kwargs |-> kwargs, fetched |-> fetched]
            /\ restSent' = res.sent
            /\ restOutcome' = res.outcome
            /\ restRet' = res.ret
            /\ UNCHANGED <<sessionVars, restEnv>>

\* ------------------------------------------ get_product_book, get_candles

\* get_product_book: assert 1 <= level <= 3, then the GET
GetProductBookCall(product_id, level) ==
    IF ~(1 <= level /\ level <= 3) THEN Raised("AssertionError", <<>>)
    ELSE Returned(PyStr("response"),
                  <<PublicRequest("/products/" \o product_id \o "/book?level="
                                    \o Str(PyInt(level)), EmptyDict)>>)

GetProductBook ==
    /\ restCall.op = "none"
    /\ \E level \in 0..4 :
        LET res == GetProductBookCall("BTC-USD", level)
        IN  /\ restCall' = [op |-> "get_product_book", product_id |-> "BTC-USD",
                            level |-> level]
            /\ restSent' = res.sent
            /\ restOutcome' = res.outcome
            /\ restRet' = res.ret
            /\ UNCHANGED <<sessionVars, restEnv>>

Timeframes == {60, 300, 900, 3600, 21600, 86400}

\* get_candles: params from the arguments given, timeframe checked when
\* given, then the GET
GetCandlesCall(product_id, start, end, timeframe) ==
    LET p1 == IF start # PyNone THEN [start |-> start] ELSE EmptyDict
        p2 == IF end # PyNone THEN DictUpdate(p1, [end |-> end]) ELSE p1
        p3 == IF timeframe # PyNone
                THEN DictUpdate(p2, [granularity |-> PyStr(Str(timeframe))])
                ELSE p2
    IN  IF timeframe # PyNone /\ timeframe.v \notin Timeframes
          THEN Raised("AssertionError", <<>>)
          ELSE Returned(PyStr("response"),
                        <<PublicRequest("/products/" \o product_id \o "/candles",
                                        p3)>>)

GetCandles ==
    /\ restCall.op = "none"
    /\ \E start \in {PyNone, PyStr("2022-03-01")}, end \in {PyNone, PyStr("2022-03-02")},
       timeframe \in {PyNone, PyInt(60), PyInt(61), PyInt(86400), PyInt(0)} :
        LET res == GetCandlesCall("BTC-USD", start, end, timeframe)
        IN  /\ restCall' = [op |-> "get_candles", product_id |-> "BTC-USD",
                            start |-> start, end |-> end, timeframe |-> timeframe]
            /\ restSent' = res.sent
            /\ restOutcome' = res.outcome
            /\ restRet' = res.ret
            /\ UNCHANGED <<sessionVars, restEnv>>

\* the caller is done with the result: the clients keep nothing between calls
RestReturn ==
    /\ restCall.op # "none"
    /\ restCall' = [op |-> "none"]
    /\ restSent' = <<>>
    /\ restOutcome' = "none"
    /\ restRet' = PyNone
    /\ UNCHANGED <<sessionVars, restEnv>>

\* time passes
Tick ==
    /\ clock < ClockStart + MaxTicks
    /\ clock' = clock + 1
    /\ UNCHANGED <<sessionVars, restCall, restSent, restOutcome, restRet, cred>>

\* ----------------------------------------------------------- REST: Spec

NextRest ==
    \/ RestReturn
    \/ Tick
    \/ CreateOrder
    \/ GetAllOrders
    \/ GetAllAccounts
    \/ GetAccount
    \/ GetProductBook
    \/ GetCandles

SpecRest == Init /\ [][NextRest]_vars

\* --------------------------------------------------------- REST: claims

IsCreateOrder == restCall.op = "create_order"
Given(key) == key \in DOMAIN restCall.kwargs
GivenAs(key, val) == Given(key) /\ restCall.kwargs[key] = PyStr(val)

\* rules 1 and 2 of create_order, on the call's arguments
TimeInForceRulesMet ==
    /\ GivenAs("time_in_force", "GTT") => Given("cancel_after")
    /\ (GivenAs("time_in_force", "IOC") \/ GivenAs("time_in_force", "FOK"))
          => ~Given("post_only")

\* rules 3 to 5 of create_order, on the call's arguments (presence only)
OrderTypeRulesMet ==
    /\ restCall.order_type = "market" => (Given("size") # Given("funds"))
    /\ restCall.order_type = "limit" => (Given("size") /\ Given("price"))
    /\ restCall.order_type = "stop" =>
          (Given("stop") /\ Given("stop_price") /\ Given("size") /\ Given("price"))

\* C5: a market order whose time_in_force rules are met passes validation
\* if and only if exactly one of size and funds is supplied.
C5_MarketSizeXorFunds ==
    (IsCreateOrder /\ restCall.order_type = "market" /\ TimeInForceRulesMet) =>
        ((restOutcome = "ok") <=> (Given("size") # Given("funds")))

\* C5 witness: a market order with both size and funds is rejected
C5_BothRejected ==
    /\ IsCreateOrder /\ restCall.order_type = "market" /\ TimeInForceRulesMet
    /\ Given("size") /\ Given("funds")
    /\ restOutcome = "AssertionError"

C7_TimeInForceRules ==
    IsCreateOrder =>
        /\ (GivenAs("time_in_force", "GTT") /\ ~Given("cancel_after"))
              => restOutcome = "AssertionError"
        /\ ((GivenAs("time_in_force", "IOC") \/ GivenAs("time_in_force", "FOK"))
              /\ Given("post_only")) => restOutcome = "AssertionError"
        /\ (GivenAs("time_in_force", "GTT") /\ Given("cancel_after")
              /\ OrderTypeRulesMet) => restOutcome = "ok"

\* C7 witness: a stop order complete but for cancel_after is rejected as GTT
C7_GttStopRejected ==
    /\ IsCreateOrder /\ restCall.order_type = "stop" /\ OrderTypeRulesMet
    /\ GivenAs("time_in_force", "GTT") /\ ~Given("cancel_after")
    /\ restOutcome = "AssertionError"

\* C8 (as claimed): a call that fails with a validation error has sent no
\* HTTP request.
C8_NoRequestBeforeValidationError ==
    restOutcome = "AssertionError" => restSent = <<>>

\* the payload the claim describes, from the call's arguments
ClaimedPayloadKeys ==
    ({"type", "side", "product_id", "stp", "time_in_force"}
        \ (IF restCall.order_type = "stop" THEN {"type"} ELSE {}))
    \cup DOMAIN restCall.kwargs

ClaimedPayloadValue(k) ==
    IF Given(k)
      THEN CASE restCall.kwargs[k].t = "str" -> restCall.kwargs[k].v
             [] restCall.kwargs[k] = PyInt(1) -> "1"
             [] restCall.kwargs[k] = PyInt(99) -> "99"
             [] restCall.kwargs[k] = PyInt(100) -> "100"
             [] restCall.kwargs[k] = PyBool(TRUE) -> "True"
             [] restCall.kwargs[k] = PyBool(FALSE) -> "False"
    ELSE CASE k = "type" -> restCall.order_type
           [] k = "side" -> restCall.side
           [] k = "product_id" -> restCall.product_id
           [] k = "stp" -> "dc"
           [] k = "time_in_force" -> "GTC"

PayloadIsAsClaimed ==
    /\ Len(restSent) = 1
    /\ restSent[1].method = "POST" /\ restSent[1].endpoint = "/orders"
    /\ DOMAIN restSent[1].body = ClaimedPayloadKeys
    /\ \A k \in ClaimedPayloadKeys : restSent[1].body[k] = ClaimedPayloadValue(k)

StatusIsListOfAllowed ==
    /\ restCall.status.t = "list"
    /\ \A i \in 1..Len(restCall.status.v) :
          restCall.status.v[i] \in {"open", "pending", "active", "done", "settled"}

\* C10: get_all_orders with status "all" sends status="all" unchecked; with
\* any other status it raises and sends nothing, unless status is a list of
\* allowed options, which is then sent as the status parameter.
C10_StatusAllOrAllowedList ==
    restCall.op = "get_all_orders" =>
        IF restCall.status = PyStr("all") \/ StatusIsListOfAllowed
          THEN /\ restOutcome = "ok"
               /\ Len(restSent) = 1
               /\ restSent[1].method = "GET"
               /\ restSent[1].params["status"] = restCall.status
          ELSE /\ restOutcome = "AssertionError"
               /\ restSent = <<>>

\* C10 witness: status=["open", "bogus"] is rejected with nothing sent
C10_BogusStatusRejected ==
    /\ restCall.op = "get_all_orders"
    /\ restCall.status = PyList(<<"open", "bogus">>)
    /\ restOutcome = "AssertionError"
    /\ restSent = <<>>

IsAccountCall == restCall.op \in {"get_account", "get_all_accounts"}
CurrencyFilterGiven == DictGet(restCall.kwargs, "currency_filter")
BalanceFilterGiven == DictGet(restCall.kwargs, "has_balance_filter")

\* C11 (as claimed): get_account / get_all_accounts fail whenever
\* currency_filter is supplied and is not a list or has_balance_filter is
\* supplied and is not a boolean, also when both are supplied; with no filter
\* they return the fetched data as it is; otherwise they return the fetched
\* list under exactly one filter (currency membership, balance > 0, or
\* balance == 0).
C11_InvalidFilterTypesRejected ==
    IsAccountCall =>
        /\ ((CurrencyFilterGiven # PyNone /\ CurrencyFilterGiven.t # "list")
              \/ (BalanceFilterGiven # PyNone /\ BalanceFilterGiven.t # "bool"))
                 => restOutcome # "ok"
        /\ (CurrencyFilterGiven = PyNone /\ BalanceFilterGiven = PyNone)
                 => (restOutcome = "ok" /\ restRet = restCall.fetched)
        /\ (restOutcome = "ok" /\ restCall.fetched.t = "list"
              /\ (CurrencyFilterGiven # PyNone \/ BalanceFilterGiven # PyNone))
                 => \/ /\ CurrencyFilterGiven.t = "list"
                       /\ restRet = PyList(FilterAccounts(restCall.fetched.v,
                                         "currency", CurrencyFilterGiven.v))
                    \/ /\ BalanceFilterGiven.t = "bool"
                       /\ restRet = PyList(FilterAccounts(restCall.fetched.v,
                             IF BalanceFilterGiven.v THEN "positive" ELSE "zero",
                             <<>>))

\* the text a sent request carries as its body: "" when it has none
BodyText(rq) == IF rq.text = PyNone THEN "" ELSE rq.text.v

\* C12: every authenticated request's CB-ACCESS-SIGN is sign(timestamp +
\* method + path with query + body, secret key), with timestamp the very
\* string in its CB-ACCESS-TIMESTAMP header and body "" when there is none;
\* and the timestamp of a request is the clock's value at that call, not
\* that of an earlier one.
C12_SignatureOverCanonicalMessage ==
    /\ [](\A i \in DOMAIN restSent : restSent[i].auth =>
            restSent[i].headers["CB-ACCESS-SIGN"] =
                Sign(restSent[i].headers["CB-ACCESS-TIMESTAMP"]
                        \o restSent[i].method \o restSent[i].path_url
                        \o BodyText(restSent[i]),
                     cred.sk))
    /\ [][(restCall.op = "none" /\ restCall'.op # "none") =>
            \A i \in DOMAIN restSent' : restSent'[i].auth =>
                restSent'[i].headers["CB-ACCESS-TIMESTAMP"] = FloatStr(clock)]_vars

\* C12 witness: an order posted after the clock has moved on by a tenth of a
\* second is signed over the new time, POST, /orders and the posted JSON text
C12_SignedPostAfterTick ==
    /\ IsCreateOrder /\ restOutcome = "ok"
    /\ restCall.order_type = "limit" /\ DOMAIN restCall.kwargs = {"size", "price"}
    /\ restCall.side = "buy"
    /\ restSent[1].headers["CB-ACCESS-TIMESTAMP"] = "1.0"
    /\ restSent[1].headers["CB-ACCESS-SIGN"].hmac_sha256 =
          "1.0POST/orders{\"type\": \"limit\", \"side\": \"buy\", "
          \o "\"product_id\": \"BTC-USD\", \"stp\": \"dc\", "
          \o "\"time_in_force\": \"GTC\", \"size\": \"1\", \"price\": \"99\"}"

====
